---- MODULE Spec2Model ----
(***************************************************************************)
(* A model of src/app.js: the comment fetcher (fetchComments), the tree    *)
(* builder (buildCommentTree) and the fetch-render flow (displayComments)  *)
(* with the refresh trigger and the per-node toggle.                       *)
(*                                                                         *)
(* Objects are modelled by reference: a comment object of a batch is named *)
(* by its position in the batch, a children list and the root list are     *)
(* sequences of positions.  Strings that the code parses (createdAt) are   *)
(* sequences of decimal digits.                                            *)
(***************************************************************************)
EXTENDS Integers, Sequences, FiniteSets, TLC

VARIABLES
    comments,   \* buildCommentTree: the batch it is applied to
    tree,       \* buildCommentTree: the returned root list
    children,   \* buildCommentTree: comment.children of every comment
    built,      \* buildCommentTree has returned
    started,    \* the DOMContentLoaded handler has run
    pc,         \* position of every displayComments flow
    nflows,     \* number of displayComments flows started (= requests sent)
    order,      \* flows in the order in which they ended
    seenDone,   \* per flow: how many flows had ended when it started
    got,        \* what the fetch of the flow that ended last delivered
    container,  \* commentsContainer: its child elements, in document order
    replaced,   \* ids of the collapsed comments the last flow end replaced
    requests,   \* number of requests sent by fetchComments
    address,    \* formatAddress: its argument
    formatted,  \* formatAddress: its result
    stack,      \* rendering: the renderComment calls still to be made
    out,        \* rendering: the div.comment elements created so far
    rstate      \* rendering: "idle", "rendering" or "done"

vars == <<comments, tree, children, built,
          started, pc, nflows, order, seenDone, got, container,
          replaced, requests, address, formatted, stack, out, rstate>>

buildVars == <<comments, tree, children, built>>
flowVars == <<started, pc, nflows, order, seenDone, got, container,
              replaced, requests>>
formatVars == <<address, formatted>>
renderVars == <<stack, out, rstate>>
pureVars == <<buildVars, formatVars, renderVars>>

----------------------------------------------------------------------------
(* Bounds *)

MaxLen == 3       \* longest batch given to buildCommentTree on its own
MaxFlows == 3     \* displayComments flows (initial load + refresh clicks)
MaxAddress == 11  \* longest address given to formatAddress

----------------------------------------------------------------------------
(* Comment records *)

\* JSON null / an absent field
Null == "<null>"

\* if (x): JavaScript truthiness of a string-or-null field
Truthy(x) == x # Null /\ x # ""

\* The id of the record at position i of a batch; ids are opaque and
\* pairwise distinct within a batch.
IdOf(i) == ToString(i)

\* An id that no record of any batch carries.
OutsideId == "x"

\* createdAt values: strings of decimal digits, here "9", "10" and "100"
Times == {<<9>>, <<1, 0>>, <<1, 0, 0>>}

Rec(i, p, t) == [id |-> IdOf(i), parentId |-> p, createdAt |-> t]

\* The batch of the specification's worked example
ExampleBatch ==
    <<Rec(1, Null, <<1, 0, 0>>), Rec(2, IdOf(1), <<2, 0, 0>>),
      Rec(3, Null, <<3, 0, 0>>)>>

ParentIds(k) == {Null, "", OutsideId} \cup {IdOf(i) : i \in 1..k}

\* The batch of k records with the parentId values p and createdAt values t
Batch(k, p, t) == [i \in 1..k |-> Rec(i, p[i], t[i])]

\* cs is a batch of at most n records
IsBatch(cs, n) ==
    \E k \in 0..n :
        \E p \in [1..k -> ParentIds(k)], t \in [1..k -> Times] :
            cs = Batch(k, p, t)

----------------------------------------------------------------------------
(* buildCommentTree *)

Front(s) == SubSeq(s, 1, Len(s) - 1)
Last(s) == s[Len(s)]

\* parseInt on a string of decimal digits
RECURSIVE ParseInt(_)
ParseInt(s) == IF s = <<>> THEN 0 ELSE 10 * ParseInt(Front(s)) + Last(s)

\* First pass: commentMap after the first n records, id -> comment object.
\* Map.set replaces an earlier entry with the same key.
RECURSIVE CommentMap(_, _)
CommentMap(cs, n) ==
    IF n = 0 THEN <<>>
    ELSE (cs[n].id :> n) @@ CommentMap(cs, n - 1)

\* The children lists after the first pass: comment.children = []
EmptyChildren(cs) == [i \in DOMAIN cs |-> <<>>]

\* Variant: linking in the pass that fills the map, against the map so far
LinkOneSinglePass(acc, cs, map, i) ==
    LET m == CommentMap(cs, i)
        pid == cs[i].parentId
    IN  IF Truthy(pid) /\ pid \in DOMAIN m
        THEN [acc EXCEPT !.children[m[pid]] = Append(@, i)]
        ELSE [acc EXCEPT !.tree = Append(@, i)]

\* Variant: a reply is also kept in the root list
LinkOneAlsoRoot(acc, cs, map, i) ==
    LET pid == cs[i].parentId
    IN  IF Truthy(pid) /\ pid \in DOMAIN map
        THEN [acc EXCEPT !.children[map[pid]] = Append(@, i),
                         !.tree = Append(@, i)]
        ELSE [acc EXCEPT !.tree = Append(@, i)]

\* Variant: a reply whose parent is not in the batch is dropped
LinkOneDropOrphan(acc, cs, map, i) ==
    LET pid == cs[i].parentId
    IN  IF Truthy(pid) /\ pid \in DOMAIN map
        THEN [acc EXCEPT !.children[map[pid]] = Append(@, i)]
        ELSE IF Truthy(pid) THEN acc
        ELSE [acc EXCEPT !.tree = Append(@, i)]

\* Second pass, one iteration, linking against the complete map: a comment
\* with a parent in the batch is pushed to the parent's children, any other
\* comment to the root list
LinkOne(acc, cs, map, i) ==
    LET pid == cs[i].parentId
    IN  IF Truthy(pid) /\ pid \in DOMAIN map
        THEN [acc EXCEPT !.children[map[pid]] = Append(@, i)]
        ELSE [acc EXCEPT !.tree = Append(@, i)]

\* Second pass over the first n records
RECURSIVE Link(_, _, _)
Link(cs, map, n) ==
    IF n = 0 THEN [tree |-> <<>>, children |-> EmptyChildren(cs)]
    ELSE LinkOne(Link(cs, map, n - 1), cs, map, n)

\* Comparison of two digit strings as strings: -1, 0 or 1
RECURSIVE CompareStrings(_, _)
CompareStrings(s, t) ==
    IF s = <<>> /\ t = <<>> THEN 0
    ELSE IF s = <<>> THEN -1
    ELSE IF t = <<>> THEN 1
    ELSE IF Head(s) < Head(t) THEN -1
    ELSE IF Head(s) > Head(t) THEN 1
    ELSE CompareStrings(Tail(s), Tail(t))

\* Variant: createdAt compared as strings, not as integers
sortByDateAsStrings(cs, a, b) ==
    CompareStrings(cs[b].createdAt, cs[a].createdAt)

\* sortByDate(a, b) == parseInt(b.createdAt) - parseInt(a.createdAt), the
\* comparator of both sorts; a and b are comment objects of the batch
sortByDate(cs, a, b) ==
    ParseInt(cs[b].createdAt) - ParseInt(cs[a].createdAt)

\* Array.prototype.sort with sortByDate: a stable sort. An element is put
\* behind every element that does not have to come after it.
RECURSIVE Insert(_, _, _)
Insert(cs, s, x) ==
    IF s = <<>> THEN <<x>>
    ELSE IF sortByDate(cs, Last(s), x) <= 0 THEN Append(s, x)
    ELSE Append(Insert(cs, Front(s), x), Last(s))

RECURSIVE Sort(_, _)
Sort(cs, s) ==
    IF s = <<>> THEN <<>> ELSE Insert(cs, Sort(cs, Front(s)), Last(s))

\* buildCommentTree(comments): the root list and every comment's children
buildCommentTree(cs) ==
    LET linked == Link(cs, CommentMap(cs, Len(cs)), Len(cs))
    IN  [tree |-> Sort(cs, linked.tree),
         children |-> [i \in DOMAIN cs |-> Sort(cs, linked.children[i])]]

----------------------------------------------------------------------------
(* The display: child elements of commentsContainer *)

\* An element of the container. flow names the displayComments flow that
\* created it. A message is a <p> with a class and a text; a comment is a
\* div.comment, listed before the comments of its div.comment-children.
Message(cls, text, f) ==
    [cls |-> cls, text |-> text, id |-> "", marginLeft |-> 0,
     replies |-> 0, hidden |-> FALSE, toggle |-> "", flow |-> f]

HideLabel(n) == "[-] Hide Replies (" \o ToString(n) \o ")"
ShowLabel(n) == "[+] Show Replies (" \o ToString(n) \o ")"

\* The div.comment of comment i at the given depth, its replies shown
CommentDiv(cs, ch, i, depth, f) ==
    [cls |-> "comment", text |-> "", id |-> cs[i].id, marginLeft |-> depth * 10,
     replies |-> Len(ch[i]), hidden |-> FALSE,
     toggle |-> IF Len(ch[i]) > 0 THEN HideLabel(Len(ch[i])) ELSE "",
     flow |-> f]

LoadingText == "Loading comments..."
NoCommentsText == "No comments found."
NoRootsText == "No root comments to display. All fetched items might be replies."

\* Variant: the loading message only goes into an empty container
showLoadingMessageKeepOld(old, f) ==
    IF old = <<>> THEN <<Message("loading-message", LoadingText, f)>> ELSE old

\* The show...Message functions assign innerHTML: the message replaces
\* whatever the container held
showLoadingMessage(old, f) == <<Message("loading-message", LoadingText, f)>>

\* Variant: the message is appended to the content
showErrorMessageAppend(old, message, f) ==
    Append(old, Message("error-message", message, f))

showErrorMessage(old, message, f) == <<Message("error-message", message, f)>>

\* Variant: the message is appended to the content
showNoCommentsMessageAppend(old, message, f) ==
    Append(old, Message("no-comments-message", message, f))

showNoCommentsMessage(old, message, f) ==
    <<Message("no-comments-message", message, f)>>

\* renderComment(comment, depth): the div of comment i followed by the divs
\* of its replies, each rendered one level deeper
RECURSIVE renderComment(_, _, _, _, _)
RECURSIVE renderAll(_, _, _, _, _)
renderComment(cs, ch, i, depth, f) ==
    <<CommentDiv(cs, ch, i, depth, f)>> \o renderAll(cs, ch, ch[i], depth + 1, f)

\* list.forEach(c => parent.appendChild(renderComment(c, depth)))
renderAll(cs, ch, list, depth, f) ==
    IF list = <<>> THEN <<>>
    ELSE renderComment(cs, ch, Head(list), depth, f)
         \o renderAll(cs, ch, Tail(list), depth, f)

\* commentsContainer.innerHTML = '' before the forest is rendered
Cleared(old) == <<>>

\* The ids of the comments of a container whose replies are collapsed
HiddenIds(c) == {c[k].id : k \in {k \in DOMAIN c : c[k].hidden}}

\* Variant: a comment that was collapsed before the refresh stays collapsed
RenderedKeepCollapsed(old, cs, f) ==
    IF cs = <<>>
    THEN showNoCommentsMessage(old, NoCommentsText, f)
    ELSE LET b == buildCommentTree(cs)
             cleared == Cleared(old)
             r == cleared \o renderAll(cs, b.children, b.tree, 0, f)
         IN  IF b.tree = <<>>
             THEN showNoCommentsMessage(cleared, NoRootsText, f)
             ELSE [k \in DOMAIN r |->
                     IF r[k].id \in HiddenIds(old) /\ r[k].replies > 0
                     THEN [r[k] EXCEPT !.hidden = TRUE,
                                       !.toggle = ShowLabel(r[k].replies)]
                     ELSE r[k]]

\* Variant: the fallback the code leaves commented out (without roots every
\* comment is rendered flat)
RenderedFlatFallback(old, cs, f) ==
    IF cs = <<>>
    THEN showNoCommentsMessage(old, NoCommentsText, f)
    ELSE LET b == buildCommentTree(cs)
             cleared == Cleared(old)
         IN  IF b.tree = <<>>
             THEN cleared \o [i \in DOMAIN cs |-> CommentDiv(cs, b.children, i, 0, f)]
             ELSE cleared \o renderAll(cs, b.children, b.tree, 0, f)

\* displayComments after fetchComments has returned comments (an array:
\* fetchComments returns items || [])
Rendered(old, cs, f) ==
    IF cs = <<>>
    THEN showNoCommentsMessage(old, NoCommentsText, f)
    ELSE LET b == buildCommentTree(cs)
             cleared == Cleared(old)
         IN  IF b.tree = <<>>
             THEN showNoCommentsMessage(cleared, NoRootsText, f)
             ELSE cleared \o renderAll(cs, b.children, b.tree, 0, f)

\* Variant: the catch of displayComments only logs
FailedKeepLoading(old, message, f) == old

\* displayComments after fetchComments has thrown error
Failed(old, message, f) ==
    showErrorMessage(old, "Failed to load comments: " \o message, f)

----------------------------------------------------------------------------
(* What a fetch can deliver *)

\* fetch() rejects: the request did not complete
NetworkMessage == "Failed to fetch"

\* response.status
Statuses == {200, 404, 500}
IsOk(status) == status >= 200 /\ status <= 299

HttpMessage(status) == "HTTP error! status: " \o ToString(status)

\* response.json() rejects: the body is no JSON
JsonMessage == "Unexpected token < in JSON"

\* result.errors, each with its message; an array, also an empty one, is truthy
ErrorLists == {<<>>, <<"bad query">>, <<"bad query", "timeout">>}

RECURSIVE Join(_)
Join(msgs) ==
    IF msgs = <<>> THEN ""
    ELSE IF Len(msgs) = 1 THEN msgs[1]
    ELSE msgs[1] \o ", " \o Join(Tail(msgs))

GraphQLMessage(errors) == "GraphQL error: " \o Join(errors)

\* result.data is missing: result.data.comments throws a TypeError
NoDataMessage == "Cannot read properties of undefined (reading 'comments')"

\* The batches a fetch of the flow model returns
FlowBatches ==
    {<<>>,
     <<Rec(1, Null, <<9>>)>>,
     <<Rec(1, OutsideId, <<9>>)>>,
     <<Rec(1, IdOf(1), <<9>>)>>,
     <<Rec(1, IdOf(2), <<9>>), Rec(2, "", <<1, 0>>)>>,
     <<Rec(1, IdOf(2), <<9>>), Rec(2, IdOf(1), <<1, 0>>)>>,
     <<Rec(1, Null, <<9>>), Rec(2, IdOf(2), <<1, 0>>)>>,
     <<Rec(1, Null, <<9>>), Rec(2, IdOf(3), <<9>>), Rec(3, IdOf(2), <<9>>)>>,
     <<Rec(1, IdOf(2), <<9>>), Rec(2, Null, <<9>>), Rec(3, IdOf(1), <<9>>),
       Rec(4, IdOf(2), <<1, 0>>)>>,
     ExampleBatch}

\* result.data.comments.items: absent (null, undefined), or a batch
AbsentItems == [absent |-> TRUE, list |-> <<>>]
ItemLists == {AbsentItems} \cup {[absent |-> FALSE, list |-> b] : b \in FlowBatches}

\* items || []
OrEmpty(items) == IF items.absent THEN <<>> ELSE items.list

----------------------------------------------------------------------------
(* The fetch-render flow *)

InFlight == {f \in 1..MaxFlows : pc[f] \in {"fetch", "json"}}

\* Variant: starting a flow aborts the pending ones
BeginFlowAbortPending(pcs, f) ==
    [g \in DOMAIN pcs |->
        IF g = f THEN "fetch"
        ELSE IF pcs[g] \in {"fetch", "json"} THEN "aborted"
        ELSE pcs[g]]

\* displayComments up to its await: fetchComments sends the request of the
\* new flow. Nothing is done to a pending flow.
BeginFlow(pcs, f) == [pcs EXCEPT ![f] = "fetch"]

\* displayComments up to its await: the loading message is shown and the
\* request is sent
displayComments ==
    LET f == nflows + 1
    IN  /\ nflows < MaxFlows
        /\ nflows' = f
        /\ pc' = BeginFlow(pc, f)
        /\ seenDone' = [seenDone EXCEPT ![f] = Len(order)]
        /\ container' = showLoadingMessage(container, f)
        /\ requests' = requests + 1
        /\ UNCHANGED <<order, got, replaced>>

\* The DOMContentLoaded handler: it registers the click listener and calls
\* displayComments for the initial load
DOMContentLoaded ==
    /\ ~started
    /\ started' = TRUE
    /\ displayComments
    /\ UNCHANGED pureVars

\* A click on the refresh button
RefreshClick ==
    /\ started
    /\ displayComments
    /\ UNCHANGED <<started, pureVars>>

\* Variant: a failed fetch is tried once more
AfterFailureRetry(r) == r + 1

\* The requests sent once fetchComments has thrown: the catch logs and
\* rethrows, no request is sent again
AfterFailure(r) == r

\* Variant: only the flow started last writes the container
EndFlowIgnoreStale(f, d, c) ==
    /\ pc' = [pc EXCEPT ![f] = "done"]
    /\ order' = Append(order, f)
    /\ got' = d
    /\ container' = IF f = nflows THEN c ELSE container
    /\ replaced' = HiddenIds(container)
    /\ requests' = IF d.kind = "items" THEN requests ELSE AfterFailure(requests)
    /\ UNCHANGED <<started, nflows, seenDone, pureVars>>

\* Flow f ends: its fetch delivered d and it leaves the container as c,
\* whether or not a later flow has been started meanwhile
EndFlow(f, d, c) ==
    /\ pc' = [pc EXCEPT ![f] = "done"]
    /\ order' = Append(order, f)
    /\ got' = d
    /\ container' = c
    /\ replaced' = HiddenIds(container)
    /\ requests' = IF d.kind = "items" THEN requests ELSE AfterFailure(requests)
    /\ UNCHANGED <<started, nflows, seenDone, pureVars>>

\* fetch() rejects; fetchComments rethrows, displayComments shows the error
FetchRejects(f) ==
    /\ pc[f] = "fetch"
    /\ EndFlow(f, [flow |-> f, kind |-> "network", items |-> AbsentItems],
               Failed(container, NetworkMessage, f))

\* fetch() resolves with a response. A response that is not ok makes
\* fetchComments throw; otherwise it awaits response.json()
FetchResolves(f, status) ==
    /\ pc[f] = "fetch"
    /\ IF IsOk(status)
       THEN /\ pc' = [pc EXCEPT ![f] = "json"]
            /\ UNCHANGED <<started, nflows, order, seenDone, got, container,
                           replaced, requests, pureVars>>
       ELSE EndFlow(f, [flow |-> f, kind |-> "http", items |-> AbsentItems],
                    Failed(container, HttpMessage(status), f))

\* response.json() rejects
JsonRejects(f) ==
    /\ pc[f] = "json"
    /\ EndFlow(f, [flow |-> f, kind |-> "json", items |-> AbsentItems],
               Failed(container, JsonMessage, f))

\* response.json() resolves with a result that carries errors
JsonResolvesErrors(f, errors) ==
    /\ pc[f] = "json"
    /\ EndFlow(f, [flow |-> f, kind |-> "errors", items |-> AbsentItems],
               Failed(container, GraphQLMessage(errors), f))

\* response.json() resolves with a result without errors and without data
JsonResolvesNoData(f) ==
    /\ pc[f] = "json"
    /\ EndFlow(f, [flow |-> f, kind |-> "nodata", items |-> AbsentItems],
               Failed(container, NoDataMessage, f))

\* response.json() resolves with data.comments.items; fetchComments returns
\* items || [] and displayComments renders it
JsonResolvesItems(f, items) ==
    /\ pc[f] = "json"
    /\ EndFlow(f, [flow |-> f, kind |-> "items", items |-> items],
               Rendered(container, OrEmpty(items), f))

\* The places of the comments rendered inside the div.comment-children of
\* the comment at place k: those that follow it at a deeper indent
Descendants(c, k) ==
    {l \in DOMAIN c :
        /\ l > k
        /\ \A m \in (k + 1)..l : c[m].marginLeft > c[k].marginLeft}

\* Variant: the click adds the class hidden and never removes it
ToggledHideOnly(c, k) ==
    [c EXCEPT ![k].hidden = TRUE, ![k].toggle = ShowLabel(c[k].replies)]

\* Variant: collapsing a comment collapses the comments below it as well
ToggledCascade(c, k) ==
    LET isHidden == ~c[k].hidden
    IN  [l \in DOMAIN c |->
            IF l = k \/ (isHidden /\ l \in Descendants(c, k) /\ c[l].replies > 0)
            THEN [c[l] EXCEPT !.hidden = isHidden,
                              !.toggle = IF isHidden THEN ShowLabel(c[l].replies)
                                         ELSE HideLabel(c[l].replies)]
            ELSE c[l]]

\* Variant: the class is toggled, the label is left as it was
ToggledKeepLabel(c, k) == [c EXCEPT ![k].hidden = ~c[k].hidden]

\* toggleButton.onclick of the comment at place k: classList.toggle flips
\* the class hidden of its div.comment-children, the label follows
Toggled(c, k) ==
    LET isHidden == ~c[k].hidden
    IN  [c EXCEPT ![k].hidden = isHidden,
                  ![k].toggle = IF isHidden THEN ShowLabel(c[k].replies)
                                ELSE HideLabel(c[k].replies)]

\* A click on the toggle button of the comment at place k of the container
ToggleClick(k) ==
    /\ k \in DOMAIN container
    /\ container[k].cls = "comment"
    /\ container[k].replies > 0
    /\ container' = Toggled(container, k)
    /\ UNCHANGED <<started, pc, nflows, order, seenDone, got, replaced,
                   requests, pureVars>>

FlowInit ==
    /\ started = FALSE
    /\ pc = [f \in 1..MaxFlows |-> "unused"]
    /\ nflows = 0
    /\ order = <<>>
    /\ seenDone = [f \in 1..MaxFlows |-> 0]
    /\ got = [flow |-> 0, kind |-> "none", items |-> AbsentItems]
    /\ container = <<>>
    /\ replaced = {}
    /\ requests = 0

\* formatAddress has not been called
NoAddress == [absent |-> TRUE, chars |-> <<>>]
FormatInit ==
    /\ address = NoAddress
    /\ formatted = [done |-> FALSE, value |-> NoAddress]

\* Nothing is being rendered step by step
RenderInit ==
    /\ stack = <<>>
    /\ out = <<>>
    /\ rstate = "idle"

Init ==
    /\ comments = <<>>
    /\ tree = <<>>
    /\ children = <<>>
    /\ built = FALSE
    /\ FlowInit
    /\ FormatInit
    /\ RenderInit

Next ==
    \/ DOMContentLoaded
    \/ RefreshClick
    \/ \E f \in 1..MaxFlows : FetchRejects(f)
    \/ \E f \in 1..MaxFlows : \E status \in Statuses : FetchResolves(f, status)
    \/ \E f \in 1..MaxFlows : JsonRejects(f)
    \/ \E f \in 1..MaxFlows : \E errors \in ErrorLists : JsonResolvesErrors(f, errors)
    \/ \E f \in 1..MaxFlows : JsonResolvesNoData(f)
    \/ \E f \in 1..MaxFlows : \E items \in ItemLists : JsonResolvesItems(f, items)
    \/ \E k \in DOMAIN container : ToggleClick(k)

Spec == Init /\ [][Next]_vars

\* A promise awaited by flow f settles
Settles(f) ==
    \/ FetchRejects(f)
    \/ JsonRejects(f)
    \/ JsonResolvesNoData(f)
    \/ \E status \in Statuses : FetchResolves(f, status)
    \/ \E errors \in ErrorLists : JsonResolvesErrors(f, errors)
    \/ \E items \in ItemLists : JsonResolvesItems(f, items)

\* The flows under the assumptions that the document gets loaded and that
\* every promise a flow awaits settles. Clicks are left to the user, who can
\* click refresh at most MaxFlows - 1 times.
SpecSettling ==
    /\ Init
    /\ [][Next]_vars
    /\ WF_vars(DOMContentLoaded)
    /\ \A f \in 1..MaxFlows : WF_vars(Settles(f))

----------------------------------------------------------------------------
(* The tree builder on its own *)

InitBuild ==
    /\ \/ IsBatch(comments, MaxLen)
       \/ comments = ExampleBatch
    /\ tree = <<>>
    /\ children = <<>>
    /\ built = FALSE
    /\ FlowInit
    /\ FormatInit
    /\ RenderInit

BuildCommentTree ==
    /\ ~built
    /\ LET r == buildCommentTree(comments)
       IN  /\ tree' = r.tree
           /\ children' = r.children
    /\ built' = TRUE
    /\ UNCHANGED <<comments, flowVars, formatVars, renderVars>>

NextBuild == BuildCommentTree

SpecBuild == InitBuild /\ [][NextBuild]_vars

----------------------------------------------------------------------------
(* formatAddress on its own *)

\* The characters of the addresses of the model
Chars == {"a", "b"}

\* address.length < 10
AbbreviateFrom == 10
\* address.substring(0, 6)
PrefixLength == 6
\* address.substring(address.length - 4)
SuffixLength == 4

Ellipsis == <<".", ".", ".">>

\* Variant: an address of exactly ten characters is passed through
formatAddressOffByOne(a) ==
    IF a.absent \/ Len(a.chars) <= AbbreviateFrom THEN a
    ELSE [absent |-> FALSE,
          chars |-> SubSeq(a.chars, 1, PrefixLength) \o Ellipsis
                    \o SubSeq(a.chars, Len(a.chars) - SuffixLength + 1, Len(a.chars))]

\* formatAddress(address); an address is absent (null, undefined) or a string
formatAddress(a) ==
    IF a.absent \/ Len(a.chars) < AbbreviateFrom THEN a
    ELSE [absent |-> FALSE,
          chars |-> SubSeq(a.chars, 1, PrefixLength) \o Ellipsis
                    \o SubSeq(a.chars, Len(a.chars) - SuffixLength + 1, Len(a.chars))]

InitFormat ==
    /\ comments = <<>>
    /\ tree = <<>>
    /\ children = <<>>
    /\ built = FALSE
    /\ FlowInit
    /\ RenderInit
    /\ \/ address = NoAddress
       \/ \E n \in 0..MaxAddress :
             \E w \in [1..n -> Chars] : address = [absent |-> FALSE, chars |-> w]
    /\ formatted = [done |-> FALSE, value |-> NoAddress]

FormatAddress ==
    /\ ~formatted.done
    /\ formatted' = [done |-> TRUE, value |-> formatAddress(address)]
    /\ UNCHANGED <<address, buildVars, flowVars, renderVars>>

NextFormat == FormatAddress

SpecFormat == InitFormat /\ [][NextFormat]_vars

----------------------------------------------------------------------------
(* Rendering a built forest, one renderComment call at a time *)

\* createdAt values of the batches that are rendered step by step
RenderTimes == {<<9>>, <<1, 0>>}

\* cs is a non-empty batch of at most n records
IsRenderBatch(cs, n) ==
    \E k \in 1..n :
        \E p \in [1..k -> ParentIds(k)], t \in [1..k -> RenderTimes] :
            cs = Batch(k, p, t)

\* list.forEach(c => renderComment(c, depth)): the calls it makes, in order
Calls(list, depth) == [k \in DOMAIN list |-> <<list[k], depth>>]

\* Variant: replies are rendered at the depth of their parent
ChildCallsSameDepth(ch, i, depth) == Calls(ch[i], depth)

\* Variant: the walk goes on below a comment and then to the comment itself
ChildCallsAndSelf(ch, i, depth) ==
    Calls(ch[i], depth + 1) \o <<(<<i, depth + 1>>)>>

\* The calls renderComment(comment i, depth) makes: one per entry of
\* comment.children, one level deeper
ChildCalls(ch, i, depth) == Calls(ch[i], depth + 1)

\* displayComments has a non-empty batch from fetchComments
InitRender ==
    /\ IsRenderBatch(comments, MaxLen)
    /\ tree = <<>>
    /\ children = <<>>
    /\ built = FALSE
    /\ FlowInit
    /\ FormatInit
    /\ RenderInit

\* The batch is handed to buildCommentTree
BuildReceived == BuildCommentTree

\* buildCommentTree returns: the steps that set built are the steps of
\* BuildReceived, and one is possible exactly when built is not set
BuildReturns == ~built /\ built' = TRUE

\* displayComments once buildCommentTree has returned: without roots it shows
\* a message, otherwise it calls renderComment for every root
RenderBegin ==
    /\ built
    /\ rstate = "idle"
    /\ IF tree = <<>>
       THEN rstate' = "done" /\ UNCHANGED <<stack, out>>
       ELSE /\ rstate' = "rendering"
            /\ stack' = Calls(tree, 0)
            /\ out' = <<>>
    /\ UNCHANGED <<buildVars, flowVars, formatVars>>

\* One call of renderComment: it creates the div of its comment and then
\* calls itself for the replies, before the calls that were already pending
RenderStep ==
    /\ rstate = "rendering"
    /\ stack # <<>>
    /\ LET i == Head(stack)[1]
           depth == Head(stack)[2]
           rest == ChildCalls(children, i, depth) \o Tail(stack)
       IN  /\ out' = Append(out, CommentDiv(comments, children, i, depth, 0))
           /\ stack' = rest
           /\ rstate' = IF rest = <<>> THEN "done" ELSE "rendering"
    /\ UNCHANGED <<buildVars, flowVars, formatVars>>

NextRender == BuildReceived \/ RenderBegin \/ RenderStep

\* A call that can be made is made: the handler is synchronous from the
\* return of fetchComments on, and the event loop runs it to its end
SpecRender ==
    /\ InitRender
    /\ [][NextRender]_vars
    /\ WF_built(BuildReturns)
    /\ WF_vars(RenderBegin)
    /\ WF_vars(RenderStep)

----------------------------------------------------------------------------
(* Properties of the tree builder *)

Range(s) == {s[k] : k \in DOMAIN s}

\* The places of the built forest that hold comment i: <<0, k>> is entry k
\* of the root list, <<q, k>> entry k of the children list of comment q.
PlacesOf(i) ==
    {<<0, k>> : k \in {k \in DOMAIN tree : tree[k] = i}}
    \cup UNION {{<<q, k>> : k \in {k \in DOMAIN children[q] : children[q][k] = i}} :
                   q \in DOMAIN children}

AllPlaces ==
    {<<0, k>> : k \in DOMAIN tree}
    \cup UNION {{<<q, k>> : k \in DOMAIN children[q]} : q \in DOMAIN children}

\* comment i has no parent in the batch
Unresolved(cs, i) ==
    \/ ~Truthy(cs[i].parentId)
    \/ \A j \in DOMAIN cs : cs[j].id # cs[i].parentId

\* C1: after buildCommentTree every record of the batch (ids pairwise
\* distinct) is in exactly one place of the forest, the root list or one
\* children list, and the lengths of all lists add up to the batch length.
C1_EveryRecordOnce ==
    built =>
        /\ \A i \in DOMAIN comments : Cardinality(PlacesOf(i)) = 1
        /\ Cardinality(AllPlaces) = Len(comments)

C1_Witness ==
    /\ built
    /\ Len(comments) = 3
    /\ Len(tree) = 1
    /\ \E q \in DOMAIN children : Len(children[q]) = 2

C3_ResolvedIsChild ==
    built =>
        /\ \A i, j \in DOMAIN comments :
              (Truthy(comments[i].parentId) /\ comments[j].id = comments[i].parentId)
                  => (i \in Range(children[j]) /\ i \notin Range(tree))
        /\ comments = ExampleBatch =>
              (tree = <<3, 1>> /\ children = <<(<<2>>), <<>>, <<>> >>)

C3_Witness ==
    /\ built
    /\ \E i, j \in DOMAIN comments :
          /\ i < j
          /\ comments[i].parentId = comments[j].id
          /\ i \in Range(children[j])
          /\ j \in Range(tree)

\* a list of comments is newest first by numeric createdAt, ties in batch order
NewestFirstStable(cs, s) ==
    \A k, l \in DOMAIN s :
        k < l =>
            \/ ParseInt(cs[s[k]].createdAt) > ParseInt(cs[s[l]].createdAt)
            \/ /\ ParseInt(cs[s[k]].createdAt) = ParseInt(cs[s[l]].createdAt)
               /\ s[k] < s[l]

\* C4: the root list and every children list are ordered by the integer value
\* of createdAt, descending, entries of equal value in batch order.
C4_SortedNewestFirst ==
    built =>
        /\ NewestFirstStable(comments, tree)
        /\ \A q \in DOMAIN children : NewestFirstStable(comments, children[q])

C4_Witness ==
    /\ built
    /\ \E q \in DOMAIN children :
          /\ Len(children[q]) = 2
          /\ comments[children[q][1]].createdAt = <<1, 0>>
          /\ comments[children[q][2]].createdAt = <<9>>
          /\ children[q][1] > children[q][2]
    /\ Len(tree) = 1

----------------------------------------------------------------------------
(* Properties of the fetch-render flow *)

\* The display state a container shows
DisplayState(c) ==
    IF c = <<>> THEN "empty"
    ELSE IF Len(c) = 1 /\ c[1].cls = "loading-message" THEN "loading"
    ELSE IF Len(c) = 1 /\ c[1].cls = "error-message" THEN "error"
    ELSE IF Len(c) = 1 /\ c[1].cls = "no-comments-message"
         THEN (IF c[1].text = NoCommentsText THEN "no comments"
               ELSE IF c[1].text = NoRootsText THEN "no root comments"
               ELSE "other message")
    ELSE IF \A k \in DOMAIN c : c[k].cls = "comment" THEN "tree"
    ELSE "mixed"

NoCommentNode(c) == \A k \in DOMAIN c : c[k].cls # "comment"

\* This step ends a flow
FlowEnds == Len(order') = Len(order) + 1

\* C5: a flow whose fetch succeeds with an empty or absent item list ends
\* with the display in the "no comments" state, which is not the error
\* state, and with no comment rendered.
C5_EmptyFetchShowsNoComments ==
    [][(FlowEnds /\ got'.kind = "items" /\ OrEmpty(got'.items) = <<>>)
          => /\ DisplayState(container') = "no comments"
             /\ container'[1].cls # "error-message"
             /\ NoCommentNode(container')]_vars

C5_Witness ==
    /\ got.kind = "items"
    /\ got.items = AbsentItems
    /\ DisplayState(container) = "no comments"
    /\ Len(order) >= 2

\* every record of the batch has a parent in the batch
AllResolved(cs) == \A i \in DOMAIN cs : ~Unresolved(cs, i)

\* C6: a flow whose fetch returns a non-empty batch in which every parentId
\* resolves within the batch gets zero roots from buildCommentTree and ends
\* with the display in the "no root comments" state, which differs from the
\* "no comments" state and holds no comment.
C6_NoRootsMessage ==
    [][(FlowEnds /\ got'.kind = "items" /\ OrEmpty(got'.items) # <<>>
            /\ AllResolved(OrEmpty(got'.items)))
          => /\ buildCommentTree(OrEmpty(got'.items)).tree = <<>>
             /\ DisplayState(container') = "no root comments"
             /\ container'[1].text # NoCommentsText
             /\ NoCommentNode(container')]_vars

C6_Witness ==
    /\ got.kind = "items"
    /\ Len(OrEmpty(got.items)) = 2
    /\ AllResolved(OrEmpty(got.items))
    /\ DisplayState(container) = "no root comments"

\* C7: a flow whose fetch fails with a TransportError (the request does not
\* complete, or the status is not a success) or a QueryError (the result
\* carries errors) ends with the display in the error state: one message
\* and no comment, whatever was displayed before.
C7_FailureShowsOnlyError ==
    [][(FlowEnds /\ got'.kind \in {"network", "http", "errors"})
          => /\ DisplayState(container') = "error"
             /\ Len(container') = 1
             /\ NoCommentNode(container')]_vars

C7_Witness ==
    /\ got.kind = "http"
    /\ DisplayState(container) = "error"
    /\ got.flow = 1
    /\ Len(order) = 2

\* The display state that what a fetch delivered leads to
Outcome(d) ==
    IF d.kind # "items" THEN "error"
    ELSE IF OrEmpty(d.items) = <<>> THEN "no comments"
    ELSE IF AllResolved(OrEmpty(d.items)) THEN "no root comments"
    ELSE "tree"

\* The container shows what the fetch d delivered, and nothing else
Shows(c, d) ==
    /\ DisplayState(c) = Outcome(d)
    /\ \A k \in DOMAIN c : c[k].flow = d.flow
    /\ Outcome(d) = "tree" =>
          LET cs == OrEmpty(d.items)
          IN  /\ {c[k].id : k \in DOMAIN c} \subseteq {cs[i].id : i \in DOMAIN cs}
              /\ {c[k].id : k \in {k \in DOMAIN c : c[k].marginLeft = 0}}
                    = {cs[i].id : i \in {i \in DOMAIN cs : Unresolved(cs, i)}}

AllEnded == nflows >= 1 /\ InFlight = {}

\* C8: flows may overlap and none is cancelled: once all flows that were
\* started have ended, each has ended once and the display shows the outcome
\* of the flow that ended last, whichever was started last; the display never
\* holds elements of two fetches.
C8_LastWriterWins ==
    /\ \A f \in 1..MaxFlows : pc[f] \in {"unused", "fetch", "json", "done"}
    /\ \A k, l \in DOMAIN container : container[k].flow = container[l].flow
    /\ AllEnded =>
          /\ Len(order) = nflows
          /\ Range(order) = 1..nflows
          /\ got.flow = Last(order)
          /\ Shows(container, got)

C8_Witness ==
    /\ AllEnded
    /\ nflows = 3
    /\ seenDone[2] = 0
    /\ seenDone[3] = 0
    /\ Last(order) = 1
    /\ DisplayState(container) = "tree"
    /\ Len(container) = 3

\* C9 as claimed: the display is in the loading state while a fetch is in
\* flight.
C9_LoadingWhileInFlight ==
    InFlight # {} => DisplayState(container) = "loading"

\* C9: the display is in the loading state while a fetch is in flight and
\* no flow has ended since that fetch was started.
C9_LoadingUntilAFlowEnds ==
    \A f \in InFlight :
        seenDone[f] = Len(order) => DisplayState(container) = "loading"

C9_Witness ==
    /\ nflows = 2
    /\ pc[1] = "done"
    /\ pc[2] = "json"
    /\ seenDone[2] = 1
    /\ DisplayState(container) = "loading"

\* C10 as claimed: at most one fetch is in flight.
C10_AtMostOneInFlight == Cardinality(InFlight) <= 1

\* C10: every trigger starts one fetch and cancels none: the fetches in
\* flight are as many as the flows started less the flows ended, which is
\* more than one when a refresh is clicked while a fetch is pending.
C10_OneFetchPerFlowNoneCancelled ==
    /\ Cardinality(InFlight) = nflows - Len(order)
    /\ \A f \in 1..MaxFlows : f <= nflows <=> pc[f] # "unused"

C10_Witness ==
    /\ Cardinality(InFlight) = MaxFlows
    /\ \E f \in InFlight : pc[f] = "json"

\* C17: every call of displayComments (the initial load or a click on
\* refresh) sends one request and a failed fetch sends none: the number of
\* requests sent is at every moment the number of calls made.
C17_OneRequestPerTrigger ==
    /\ requests = nflows
    /\ requests = Cardinality({f \in 1..MaxFlows : pc[f] # "unused"})

\* The first load has failed on the network and the user has clicked refresh
C17_Witness ==
    /\ pc[1] = "done"
    /\ got.flow = 1
    /\ got.kind = "network"
    /\ pc[2] = "fetch"
    /\ requests = 2

TerminalStates == {"tree", "no comments", "no root comments", "error"}

\* C19: when the document gets loaded and every awaited promise settles, the
\* display ends up in one of the states tree, "no comments", "no root
\* comments" and error and stays in it; and the end of a flow never leaves
\* the display in the loading state.
C19_EventuallyTerminal ==
    /\ \E s \in TerminalStates : <>[](DisplayState(container) = s)
    /\ [][FlowEnds => DisplayState(container') \in TerminalStates]_vars

\* Every flow the user could start has ended, the one started last not as
\* the last, and the display has left the loading state
C19_Witness ==
    /\ nflows >= 2
    /\ InFlight = {}
    /\ Last(order) # nflows
    /\ DisplayState(container) \in TerminalStates

----------------------------------------------------------------------------
(* Properties of rendering and collapsing *)

\* The record that comment i of the batch names as its parent
ParentOf(cs, i) == CHOOSE j \in DOMAIN cs : cs[j].id = cs[i].parentId

\* The length of the parentId chain from comment i to a record without a
\* parent in the batch, -1 when the chain does not end within fuel steps
RECURSIVE ChainLength(_, _, _)
ChainLength(cs, i, fuel) ==
    IF Unresolved(cs, i) THEN 0
    ELSE IF fuel = 0 THEN -1
    ELSE LET d == ChainLength(cs, ParentOf(cs, i), fuel - 1)
         IN  IF d < 0 THEN -1 ELSE d + 1

\* The records whose parentId chain ends at a root
Rooted(cs) == {i \in DOMAIN cs : ChainLength(cs, i, Len(cs)) >= 0}

\* The places of container c that hold the comment with the given id
PlacesWithId(c, id) == {k \in DOMAIN c : c[k].cls = "comment" /\ c[k].id = id}

\* C11: when a flow renders its forest, the display afterwards holds exactly
\* the nodes of that forest, all made by that flow, and every node with
\* replies is expanded, whatever was collapsed in the display it replaces.
C11_FreshRenderDiscardsOld ==
    [][(FlowEnds /\ Outcome(got') = "tree")
          => LET cs == OrEmpty(got'.items)
             IN  /\ \A k \in DOMAIN container' :
                       /\ container'[k].cls = "comment"
                       /\ container'[k].flow = got'.flow
                       /\ ~container'[k].hidden
                       /\ container'[k].replies > 0
                             => container'[k].toggle = HideLabel(container'[k].replies)
                 /\ \A i \in DOMAIN cs :
                       Cardinality(PlacesWithId(container', cs[i].id))
                          = IF i \in Rooted(cs) THEN 1 ELSE 0
                 /\ Len(container') = Cardinality(Rooted(cs))]_vars

C11_Witness ==
    /\ got.kind = "items"
    /\ DisplayState(container) = "tree"
    /\ HiddenIds(container) = {}
    /\ \E k \in DOMAIN container :
          container[k].replies > 0 /\ container[k].id \in replaced

\* The places of container c that have a toggle button
Toggles(c) == {k \in DOMAIN c : c[k].cls = "comment" /\ c[k].replies > 0}

\* C12: for every rendered node with replies, in every collapse state of the
\* view, two toggles in a row give the node the flag it had before.
C12_ToggleTwiceRestores ==
    \A k \in Toggles(container) :
        Toggled(Toggled(container, k), k)[k].hidden = container[k].hidden

C12_Witness ==
    \E k, l \in Toggles(container) :
        /\ container[k].hidden
        /\ ~container[l].hidden
        /\ Toggled(container, k)[k].hidden = FALSE

\* This step is a click on a toggle button
ToggleStep == pc' = pc /\ nflows' = nflows /\ container' # container

\* C13: one toggle changes the flag of one node and nothing else: every
\* other node of the display, its descendants included, keeps its flag, and
\* the rendered forest stays as it is.
C13_ToggleChangesOneFlag ==
    [][ToggleStep
          => /\ DOMAIN container' = DOMAIN container
             /\ \E k \in Toggles(container) :
                   /\ container'[k].hidden = ~container[k].hidden
                   /\ \A l \in DOMAIN container \ {k} : container'[l] = container[l]
                   /\ [container'[k] EXCEPT !.hidden = FALSE, !.toggle = ""]
                         = [container[k] EXCEPT !.hidden = FALSE, !.toggle = ""]]_vars

C13_Witness ==
    /\ Len(container) = 4
    /\ \E k \in Toggles(container) :
          /\ container[k].marginLeft = 0
          /\ container[k].hidden
          /\ \E l \in Descendants(container, k) :
                l \in Toggles(container) /\ ~container[l].hidden

\* The number of comments rendered directly inside the div.comment-children
\* of the comment at place k
DirectReplies(c, k) ==
    Cardinality({l \in Descendants(c, k) : c[l].marginLeft = c[k].marginLeft + 10})

\* C16: after rendering and after any toggles, the toggle label of a node
\* with n >= 1 direct replies reads Hide Replies (n) exactly when the node is
\* expanded and Show Replies (n) exactly when it is collapsed; a node
\* without replies has no toggle.
C16_LabelAgreesWithFlag ==
    \A k \in DOMAIN container :
        container[k].cls = "comment" =>
            LET n == DirectReplies(container, k)
            IN  /\ container[k].replies = n
                /\ n = 0 => (container[k].toggle = "" /\ ~container[k].hidden)
                /\ n >= 1 =>
                      /\ ~container[k].hidden <=> container[k].toggle = HideLabel(n)
                      /\ container[k].hidden <=> container[k].toggle = ShowLabel(n)

C16_Witness ==
    \E k, l \in Toggles(container) :
        /\ container[k].hidden
        /\ container[k].toggle = "[+] Show Replies (2)"
        /\ ~container[l].hidden
        /\ container[l].toggle = "[-] Hide Replies (1)"
        /\ \E m \in DOMAIN container : container[m].toggle = ""

----------------------------------------------------------------------------
(* Properties of formatAddress *)

\* C14: formatAddress returns an address of 10 or more characters as its
\* first 6 characters, "..." and its last 4 characters, and returns a
\* shorter address unchanged.
C14_FormatAddress ==
    (formatted.done /\ ~address.absent) =>
        LET a == address.chars
            r == formatted.value.chars
        IN  /\ ~formatted.value.absent
            /\ Len(a) < 10 => r = a
            /\ Len(a) >= 10 =>
                  /\ Len(r) = 13
                  /\ \A i \in 1..6 : r[i] = a[i]
                  /\ \A i \in 7..9 : r[i] = "."
                  /\ \A i \in 1..4 : r[9 + i] = a[Len(a) - 4 + i]

C14_Witness ==
    /\ formatted.done
    /\ address.chars = <<"a", "b", "a", "a", "b", "b", "a", "a", "b", "a">>
    /\ formatted.value.chars
          = <<"a", "b", "a", "a", "b", "b", ".", ".", ".", "a", "a", "b", "a">>

----------------------------------------------------------------------------
(* Properties of rendering step by step *)

\* The steps of renderComment create what the recursive function returns
RenderStepsAgree ==
    (rstate = "done" /\ tree # <<>>)
        => out = renderAll(comments, children, tree, 0, 0)

\* C15: buildCommentTree followed by rendering terminates for every batch,
\* also with parentId cycles and self references: no record is rendered
\* twice, so there are at most as many renderComment calls as records.
C15_RenderTerminates ==
    /\ [](/\ \A i \in DOMAIN comments :
                Cardinality(PlacesWithId(out, comments[i].id)) <= 1
          /\ Len(out) <= Len(comments))
    /\ <>(rstate = "done")

C15_Witness ==
    /\ rstate = "done"
    /\ Len(comments) = 3
    /\ Len(out) = 1
    /\ \E i, j \in DOMAIN comments :
          /\ i # j
          /\ comments[i].parentId = comments[j].id
          /\ comments[j].parentId = comments[i].id

\* C18: when a forest with a root is rendered, the rendered nodes are the
\* records whose parentId chain ends at a root, each once and indented by
\* the length of its chain; a record on a parentId cycle, or below one, is
\* rendered nowhere.
C18_RenderedAreTheRooted ==
    (rstate = "done" /\ tree # <<>>) =>
        /\ \A i \in DOMAIN comments :
              LET d == ChainLength(comments, i, Len(comments))
                  at == PlacesWithId(out, comments[i].id)
              IN  IF d >= 0
                  THEN /\ Cardinality(at) = 1
                       /\ \A k \in at : out[k].marginLeft = 10 * d
                  ELSE at = {}
        /\ Len(out) = Cardinality(Rooted(comments))

C18_Witness ==
    /\ rstate = "done"
    /\ Len(comments) = 3
    /\ \E i, j, k \in DOMAIN comments :
          /\ Unresolved(comments, i)
          /\ comments[j].parentId = comments[i].id
          /\ comments[k].parentId = comments[k].id
          /\ \E m \in DOMAIN out : out[m].marginLeft = 10
    /\ Len(out) = 2

====
